---- MODULE Spec2Model ----
(***************************************************************************)
(* Model of the flight-fare orchestrator (src/core/orchestrator.py):       *)
(* FlightOrchestrator.register_scraper and FlightOrchestrator.scan_all,    *)
(* the ScraperError exception (src/core/exceptions.py) and the ranking of  *)
(* one airline's offers inside scan_all.                                   *)
(*                                                                         *)
(* Other parts of the program are applied on their own, each under its own *)
(* specification: the ranking of one job's offers (RankSpec), the          *)
(* construction of a FlightRequest (RequestSpec, src/core/models.py),      *)
(* EthiopianScraper.scrape (ScrapeSpec), EmiratesScraper.scrape            *)
(* (EmiratesSpec), the /search handler of the Telegram bot (SearchSpec,    *)
(* src/bot/telegram_bot.py), the construction of a ScraperError            *)
(* (ErrorSpec) and AirlineScraper.get_best_price (BestPriceSpec).          *)
(* UntypedSpec adds to Spec a job whose offers have no comparable prices,  *)
(* RepeatSpec a second scan_all on the same orchestrator.                  *)
(*                                                                         *)
(* scan_all runs on concurrent.futures.ProcessPoolExecutor() and           *)
(* concurrent.futures.as_completed; the model follows CPython's behaviour  *)
(* of those two calls as scan_all uses them:                               *)
(*   - ProcessPoolExecutor() has max_workers = the machine's CPU count;    *)
(*     a worker process takes the queued calls one after another, in       *)
(*     submission order;                                                   *)
(*   - a worker process that dies breaks the pool: every future that has   *)
(*     no result yet fails with BrokenProcessPool, the other workers are   *)
(*     terminated, and a later submit() raises BrokenProcessPool;          *)
(*   - as_completed first yields the futures that were already finished    *)
(*     when it was called (it holds them in a set: no order), then the     *)
(*     others in the order they finish.                                    *)
(***************************************************************************)
EXTENDS Integers, Sequences, FiniteSets, TLC

\* ---------------------------------------------------------------- bounds
MaxJobs == 2
MaxCpu == 2
MaxScans == 1

\* ------------------------------------------------------- program constants
\* airline_results[:9]
TopN == 9

None == "None"

\* ---------------------------------------------------------------- helpers
Range(s) == {s[i] : i \in 1..Len(s)}

Take(s, n) == SubSeq(s, 1, IF n < Len(s) THEN n ELSE Len(s))

\* ------------------------------------------------------ dates and labels
\* A date label (FlightResult.departure_date / return_date, free text such as
\* "Dec 3") is a sequence of characters; a requested date is [month, day].

\* strftime("%b"): the abbreviated month name
MonthAbbr ==
    << <<"J", "a", "n">>,
       <<"F", "e", "b">>,
       <<"M", "a", "r">>,
       <<"A", "p", "r">>,
       <<"M", "a", "y">>,
       <<"J", "u", "n">>,
       <<"J", "u", "l">>,
       <<"A", "u", "g">>,
       <<"S", "e", "p">>,
       <<"O", "c", "t">>,
       <<"N", "o", "v">>,
       <<"D", "e", "c">> >>

\* strftime("%B"): the full month name
MonthFull ==
    << <<"J", "a", "n", "u", "a", "r", "y">>,
       <<"F", "e", "b", "r", "u", "a", "r", "y">>,
       <<"M", "a", "r", "c", "h">>,
       <<"A", "p", "r", "i", "l">>,
       <<"M", "a", "y">>,
       <<"J", "u", "n", "e">>,
       <<"J", "u", "l", "y">>,
       <<"A", "u", "g", "u", "s", "t">>,
       <<"S", "e", "p", "t", "e", "m", "b", "e", "r">>,
       <<"O", "c", "t", "o", "b", "e", "r">>,
       <<"N", "o", "v", "e", "m", "b", "e", "r">>,
       <<"D", "e", "c", "e", "m", "b", "e", "r">> >>

Digits == <<"0", "1", "2", "3", "4", "5", "6", "7", "8", "9">>

\* strftime("%-d"): the day of the month without padding (the glibc flag; the
\* code runs on Linux)
DayUnpadded(d) ==
    IF d < 10 THEN <<Digits[d + 1]>>
    ELSE <<Digits[(d \div 10) + 1], Digits[(d % 10) + 1]>>

\* strftime("%d"): the day of the month, zero-padded to two digits
DayPadded(d) == <<Digits[(d \div 10) + 1], Digits[(d % 10) + 1]>>

\* dep_formats / ret_formats: "%b %-d", "%b %d", "%B %-d", "%B %d"
DateFormats(date) ==
    << MonthAbbr[date.month] \o <<" ">> \o DayUnpadded(date.day),
       MonthAbbr[date.month] \o <<" ">> \o DayPadded(date.day),
       MonthFull[date.month] \o <<" ">> \o DayUnpadded(date.day),
       MonthFull[date.month] \o <<" ">> \o DayPadded(date.day) >>

\* Python's  fmt in date_str  (substring test)
Contains(fmt, str) ==
    \E i \in 0..(Len(str) - Len(fmt)) : SubSeq(str, i + 1, i + Len(fmt)) = fmt

\* is_match(date_str, formats): any(fmt in date_str for fmt in formats)
is_match(date_str, formats) ==
    \E k \in 1..Len(formats) : Contains(formats[k], date_str)

\* ------------------------------------------------------------- ranking
\* where list.sort(key=price) puts the offer s[i]: after every cheaper offer
\* and after the offers of the same price that precede it (the sort is stable)
SortedPos(s, i) ==
    1 + Cardinality({k \in 1..Len(s) :
                        \/ s[k].price < s[i].price
                        \/ s[k].price = s[i].price /\ k < i})

\* airline_results.sort(key=lambda x: x.price)
SortByPrice(s) ==
    [p \in 1..Len(s) |-> s[CHOOSE i \in 1..Len(s) : SortedPos(s, i) = p]]

\* ExactMatchIndex that looks at the departure label only
ExactMatchIndexDepartureOnly(sorted, request) ==
    LET hits == {i \in 1..Len(sorted) :
                    is_match(sorted[i].departure_date, DateFormats(request.departure_date))}
    IN  IF hits = {} THEN 0 ELSE CHOOSE i \in hits : \A k \in hits : i <= k

\* the index of the first offer of the sorted list whose two labels match the
\* requested dates, 0 when there is none (exact_match stays None)
ExactMatchIndex(sorted, request) ==
    LET hits == {i \in 1..Len(sorted) :
                    /\ is_match(sorted[i].departure_date, DateFormats(request.departure_date))
                    /\ is_match(sorted[i].return_date, DateFormats(request.return_date))}
    IN  IF hits = {} THEN 0 ELSE CHOOSE i \in hits : \A k \in hits : i <= k

\* ListRemove that leaves the list as it is
ListRemoveNothing(s, x) == s

\* list.remove(x): drops the first element equal to x
ListRemove(s, x) ==
    LET eq == {i \in 1..Len(s) : s[i] = x}
        i == CHOOSE k \in eq : \A m \in eq : k <= m
    IN  SubSeq(s, 1, i - 1) \o SubSeq(s, i + 1, Len(s))

\* the loop of lines 90-93 on the sorted offers: exact_match, <<>> for None
ExactMatch(airline_results, request) ==
    LET sorted == SortByPrice(airline_results)
        m == ExactMatchIndex(sorted, request)
    IN  IF m = 0 THEN <<>> ELSE <<sorted[m]>>

\* Rank without list.sort: the offers stay in the order the job returned them
RankUnsorted(airline_results, request) ==
    LET m == ExactMatchIndex(airline_results, request)
    IN  IF m = 0 THEN Take(airline_results, TopN)
        ELSE <<airline_results[m]>> \o Take(ListRemove(airline_results, airline_results[m]), TopN)

\* Rank that caps the whole list, the exact match included, at TopN
RankCapsWhole(airline_results, request) ==
    LET sorted == SortByPrice(airline_results)
        m == ExactMatchIndex(sorted, request)
    IN  IF m = 0 THEN Take(sorted, TopN)
        ELSE Take(<<sorted[m]>> \o ListRemove(sorted, sorted[m]), TopN)

\* the ranking of one airline's offers: final_list
Rank(airline_results, request) ==
    LET sorted == SortByPrice(airline_results)
        m == ExactMatchIndex(sorted, request)
    IN  IF m = 0 THEN Take(sorted, TopN)
        ELSE <<sorted[m]>> \o Take(ListRemove(sorted, sorted[m]), TopN)

\* ----------------------------------------------------------- exceptions
\* Python truthiness of an optional path: None and "" are falsy
Truthy(path) == path # None /\ path # ""

\* ScraperErrorInit that appends the final screenshot without looking at the list
ScraperErrorInitAlwaysAppends(message, screenshot_path, html_path, screenshot_paths) ==
    [ cls |-> "ScraperError",
      message |-> message,
      screenshot_path |-> screenshot_path,
      html_path |-> html_path,
      screenshot_paths |->
          IF Truthy(screenshot_path)
          THEN Append(screenshot_paths, screenshot_path) ELSE screenshot_paths ]

\* ScraperError.__init__(message, screenshot_path, html_path, screenshot_paths)
ScraperErrorInit(message, screenshot_path, html_path, screenshot_paths) ==
    \* screenshot_paths or []: an absent list (None) is passed as <<>>
    LET given == screenshot_paths
    IN  [ cls |-> "ScraperError",
          message |-> message,
          screenshot_path |-> screenshot_path,
          html_path |-> html_path,
          screenshot_paths |->
              IF Truthy(screenshot_path) /\ screenshot_path \notin Range(given)
              THEN Append(given, screenshot_path) ELSE given ]

\* any exception that is not a ScraperError: it carries its message only
PlainException(cls, message) ==
    [ cls |-> cls, message |-> message, screenshot_path |-> None,
      html_path |-> None, screenshot_paths |-> <<>> ]

\* How an exception raised in the worker process reaches future.result() in
\* the parent: it is pickled as (class, args, __dict__), where args is what
\* ScraperError.__init__ handed to Exception.__init__ (the message alone), and
\* rebuilt as class(*args) followed by an update of __dict__.
AcrossProcess(exc) ==
    IF exc.cls = "ScraperError"
    THEN LET rebuilt == ScraperErrorInit(exc.message, None, None, <<>>)
         IN  [rebuilt EXCEPT !.screenshot_path = exc.screenshot_path,
                             !.html_path = exc.html_path,
                             !.screenshot_paths = exc.screenshot_paths]
    ELSE PlainException(exc.cls, exc.message)

\* except ScraperError
IsScraperError(exc) == exc.cls = "ScraperError"

\* except Exception: ScraperError and BrokenProcessPool derive from Exception
IsException(exc) ==
    exc.cls \in {"ScraperError", "Exception", "BrokenProcessPool", "TypeError"}

\* DiagnosedEntry that drops the screenshot path
DiagnosedEntryNoPath(name, se) ==
    [airline |-> name, message |-> se.message, screenshot_path |-> None]

\* the dictionary appended to errors by  except ScraperError as se
DiagnosedEntry(name, se) ==
    [airline |-> name, message |-> se.message, screenshot_path |-> se.screenshot_path]

\* the dictionary appended to errors by  except Exception as e
UndiagnosedEntry(name, e) ==
    [airline |-> name, message |-> e.message, screenshot_path |-> None]

\* Handler without the  except Exception  clause
HandlerOnlyScraperError(exc) ==
    IF IsScraperError(exc) THEN "diagnosed" ELSE "propagate"

\* which handler of the try statement takes an exception of future.result()
Handler(exc) ==
    IF IsScraperError(exc) THEN "diagnosed"
    ELSE IF IsException(exc) THEN "undiagnosed"
    ELSE "propagate"

\* ------------------------------------------------------------ the inputs
Names == {"A", "B", "C"}

Label(month, day) == MonthAbbr[month] \o <<" ">> \o DayUnpadded(day)

Offer(dep, ret, price, lowest) ==
    [departure_date |-> dep, return_date |-> ret, price |-> price, is_lowest |-> lowest]

OfferMatch == Offer(Label(12, 3), Label(12, 23), 300, FALSE)
OfferCheap == Offer(Label(12, 5), Label(12, 23), 100, TRUE)
OfferOther == Offer(Label(12, 4), Label(12, 24), 200, FALSE)

\* what a job's scrape may return
OfferSeqs == { <<>>, <<OfferMatch, OfferCheap>>, <<OfferOther, OfferCheap>> }

\* what a job's scrape may raise
Raised ==
    { ScraperErrorInit("failed", "final.png", "page.html", <<"step1.png", "step2.png">>),
      ScraperErrorInit("failed", None, None, <<>>),
      PlainException("Exception", "failed") }

Requests == { [departure_date |-> [month |-> 12, day |-> 3],
               return_date |-> [month |-> 12, day |-> 23]] }

NoRequest == [departure_date |-> [month |-> 1, day |-> 1],
              return_date |-> [month |-> 1, day |-> 1]]

\* --------------------------------------------------------------- futures
NoExc == PlainException("none", "")

NoOutcome == [kind |-> "none", offers |-> <<>>, exc |-> NoExc]

Returned(offers) == [kind |-> "offers", offers |-> offers, exc |-> NoExc]

\* scrape returned None instead of a list
ReturnedNone == [kind |-> "nothing", offers |-> <<>>, exc |-> NoExc]

Failed(exc) == [kind |-> "exception", offers |-> <<>>, exc |-> exc]

BrokenPool ==
    Failed(PlainException("BrokenProcessPool", "A process in the process pool was terminated abruptly"))

Future(state, out) == [state |-> state, out |-> out]

\* ----------------------------------------------------------------- state
VARIABLES
    scrapers,            \* self.scrapers: the registered scrapers, each [name]
    pc,                  \* where the caller is: "idle", inside scan_all
                         \* ("submitting", "collecting"), "returned", "raised"
    scans,               \* number of scan_all calls made so far
    ncpu,                \* os.cpu_count(): max_workers of ProcessPoolExecutor()
    request,             \* the request of the current scan_all call
    next_submit,         \* index of the next scraper the comprehension submits
    fut,                 \* fut[j]: the future of scrapers[j]
    worker,              \* worker[w]: the job worker process w executes, 0 when
                         \* it is idle, -1 when the process is dead
    broken,              \* the pool is broken (a worker process died)
    finished,            \* as_completed: futures already finished when it was called
    waiter,              \* as_completed: waiter.finished_futures, in finishing order
    yielded,             \* futures the for loop has taken from as_completed
    results_by_airline,  \* the dictionary scan_all builds
    errors,              \* the list scan_all builds
    order,               \* history: the jobs in the order their futures finished
    consumed,            \* history: the jobs in the order the loop handled them
    ranOn,               \* history: ranOn[j] is the worker that executed job j, 0 if none
    crashed,             \* history: the jobs whose own process died
    snapshot,            \* history: the futures as_completed found finished at its call
    call,                \* the arguments of a function applied on its own, outside scan_all
    result               \* what that function returned or raised

vars ==
    << scrapers, pc, scans, ncpu, request, next_submit, fut, worker, broken,
           finished, waiter, yielded, results_by_airline, errors,
           order, consumed, ranOn, crashed, snapshot, call, result >>

\* a function applied on its own: its arguments and its outcome
pureVars == << call, result >>

\* no function is being applied on its own
NoCall == [fn |-> "none"]

\* the function applied on its own has not returned yet
NoResult == [pending |-> TRUE]

\* the indices of self.scrapers
Registered == 1..Len(scrapers)

\* the jobs of the current scan_all call: the keys of future_to_scraper
Jobs == DOMAIN fut

Workers == 1..ncpu

EmptyDict == [n \in {} |-> <<>>]

\* DictSet that rebinds the dictionary instead of adding a key
DictSetReplace(dict, name, value) == [n \in {name} |-> value]

\* DictSet that keeps the value a key already has
DictSetKeepFirst(dict, name, value) ==
    [n \in (DOMAIN dict) \cup {name} |-> IF n \in DOMAIN dict THEN dict[n] ELSE value]

\* results_by_airline[name] = final_list
DictSet(dict, name, value) ==
    [n \in (DOMAIN dict) \cup {name} |-> IF n = name THEN value ELSE dict[n]]

\* FlightOrchestrator.__init__, on a machine with 1..MaxCpu CPUs
Init ==
    /\ scrapers = <<>>
    /\ pc = "idle"
    /\ scans = 0
    /\ ncpu \in 1..MaxCpu
    /\ request = NoRequest
    /\ next_submit = 1
    /\ fut = <<>>
    /\ worker = [w \in 1..ncpu |-> 0]
    /\ broken = FALSE
    /\ finished = {}
    /\ waiter = <<>>
    /\ yielded = {}
    /\ results_by_airline = EmptyDict
    /\ errors = <<>>
    /\ order = <<>>
    /\ consumed = <<>>
    /\ ranOn = <<>>
    /\ crashed = {}
    /\ snapshot = {}
    /\ call = NoCall
    /\ result = NoResult

scanVars == << request, next_submit, fut, worker, broken, finished, waiter, yielded,
               results_by_airline, errors, order, consumed, ranOn, crashed, snapshot >>

\* the caller is outside scan_all
Outside == pc \in {"idle", "returned", "raised"}

\* register_scraper(scraper): self.scrapers.append(scraper)
RegisterScraper(name) ==
    /\ Outside
    /\ Len(scrapers) < MaxJobs
    /\ scrapers' = Append(scrapers, [name |-> name])
    /\ UNCHANGED pureVars
    /\ UNCHANGED << pc, scans, ncpu, scanVars >>

\* EnterScanAll with results_by_airline and errors kept from the call before
EnterScanAllKeepsOutcome(req) ==
    /\ Outside
    /\ scans' = scans + 1
    /\ pc' = "submitting"
    /\ request' = req
    /\ next_submit' = 1
    /\ fut' = [j \in Registered |-> Future("unsubmitted", NoOutcome)]
    /\ worker' = [w \in Workers |-> 0]
    /\ broken' = FALSE
    /\ finished' = {}
    /\ waiter' = <<>>
    /\ yielded' = {}
    /\ UNCHANGED << results_by_airline, errors >>
    /\ order' = <<>>
    /\ consumed' = <<>>
    /\ ranOn' = [j \in Registered |-> 0]
    /\ crashed' = {}
    /\ snapshot' = {}
    /\ UNCHANGED pureVars
    /\ UNCHANGED << scrapers, ncpu >>

\* scan_all(request), up to the creation of the pool: results_by_airline = {},
\* errors = [], with ProcessPoolExecutor() as executor
EnterScanAll(req) ==
    /\ Outside
    /\ scans' = scans + 1
    /\ pc' = "submitting"
    /\ request' = req
    /\ next_submit' = 1
    /\ fut' = [j \in Registered |-> Future("unsubmitted", NoOutcome)]
    /\ worker' = [w \in Workers |-> 0]
    /\ broken' = FALSE
    /\ finished' = {}
    /\ waiter' = <<>>
    /\ yielded' = {}
    /\ results_by_airline' = EmptyDict
    /\ errors' = <<>>
    /\ order' = <<>>
    /\ consumed' = <<>>
    /\ ranOn' = [j \in Registered |-> 0]
    /\ crashed' = {}
    /\ snapshot' = {}
    /\ UNCHANGED pureVars
    /\ UNCHANGED << scrapers, ncpu >>

\* a call of scan_all(request)
ScanAll(req) ==
    /\ scans < MaxScans
    /\ EnterScanAll(req)

\* ------------------------------------------------------- the process pool
RECURSIVE Ascending(_)
\* the elements of a set of job indices in increasing (submission) order
Ascending(S) ==
    IF S = {} THEN <<>>
    ELSE LET m == CHOOSE x \in S : \A y \in S : x <= y
         IN  <<m>> \o Ascending(S \ {m})

\* executor.submit(scraper.scrape, request) for the next scraper of the
\* comprehension, while the pool works
SubmitNext ==
    /\ pc = "submitting"
    /\ next_submit <= Len(fut)
    /\ ~broken
    /\ fut' = [fut EXCEPT ![next_submit] = Future("pending", NoOutcome)]
    /\ next_submit' = next_submit + 1
    /\ UNCHANGED pureVars
    /\ UNCHANGED << scrapers, pc, scans, ncpu, request, worker, broken, finished,
                    waiter, yielded, results_by_airline, errors, order, consumed,
                    ranOn, crashed, snapshot >>

\* executor.submit on a broken pool raises BrokenProcessPool: the comprehension
\* is outside the try statement, so the exception leaves scan_all
SubmitBroken ==
    /\ pc = "submitting"
    /\ next_submit <= Len(fut)
    /\ broken
    /\ pc' = "raised"
    /\ UNCHANGED pureVars
    /\ UNCHANGED << scrapers, scans, ncpu, scanVars >>

\* WorkerFree that lets a busy worker take a second call
WorkerAlive(w) == worker[w] >= 0

\* a worker process may take a call: it is alive and executes nothing
WorkerFree(w) == worker[w] = 0

\* the call a free worker takes from the call queue: the oldest one submitted
NextCall ==
    LET pending == {j \in Jobs : fut[j].state = "pending"}
    IN  IF pending = {} THEN 0 ELSE CHOOSE j \in pending : \A k \in pending : j <= k

\* worker process w takes the next call and starts scraper.scrape(request)
StartJob(w) ==
    /\ pc \in {"submitting", "collecting"}
    /\ ~broken
    /\ WorkerFree(w)
    /\ NextCall # 0
    /\ fut' = [fut EXCEPT ![NextCall] = Future("running", NoOutcome)]
    /\ worker' = [worker EXCEPT ![w] = NextCall]
    /\ ranOn' = [ranOn EXCEPT ![NextCall] = w]
    /\ UNCHANGED pureVars
    /\ UNCHANGED << scrapers, pc, scans, ncpu, request, next_submit, broken, finished,
                    waiter, yielded, results_by_airline, errors, order, consumed, crashed, snapshot >>

\* the future of job j gets its outcome; as_completed's waiter, once installed,
\* records it
Complete(j, out) ==
    /\ fut[j].state = "running"
    /\ fut' = [fut EXCEPT ![j] = Future("done", out)]
    /\ worker' = [worker EXCEPT ![ranOn[j]] = 0]
    /\ order' = Append(order, j)
    /\ waiter' = IF pc = "collecting" THEN Append(waiter, j) ELSE waiter
    /\ UNCHANGED pureVars
    /\ UNCHANGED << scrapers, pc, scans, ncpu, request, next_submit, broken, finished,
                    yielded, results_by_airline, errors, consumed, ranOn, crashed, snapshot >>

\* scrape returns a list of offers
JobReturn(j, offers) == Complete(j, Returned(offers))

\* scrape returns no list at all (None)
JobReturnNone(j) == Complete(j, ReturnedNone)

\* scrape raises
JobRaise(j, exc) == Complete(j, Failed(AcrossProcess(exc)))

\* scrape never terminates
JobHang(j) ==
    /\ fut[j].state = "running"
    /\ fut' = [fut EXCEPT ![j] = Future("hung", NoOutcome)]
    /\ UNCHANGED pureVars
    /\ UNCHANGED << scrapers, pc, scans, ncpu, request, next_submit, worker, broken,
                    finished, waiter, yielded, results_by_airline, errors, order,
                    consumed, ranOn, crashed, snapshot >>

\* the futures a broken pool fails: every one that is submitted and not done
Unfinished == {k \in Jobs : fut[k].state \in {"pending", "running", "hung"}}

\* the process executing job j dies: the pool is broken, every unfinished
\* future fails with BrokenProcessPool and every worker is terminated
JobCrash(j) ==
    /\ fut[j].state = "running"
    /\ broken' = TRUE
    /\ crashed' = crashed \cup {j}
    /\ fut' = [k \in Jobs |-> IF k \in Unfinished THEN Future("done", BrokenPool) ELSE fut[k]]
    /\ worker' = [w \in Workers |-> -1]
    /\ order' = order \o Ascending(Unfinished)
    /\ waiter' = IF pc = "collecting" THEN waiter \o Ascending(Unfinished) ELSE waiter
    /\ UNCHANGED pureVars
    /\ UNCHANGED << scrapers, pc, scans, ncpu, request, next_submit, finished,
                    yielded, results_by_airline, errors, consumed, ranOn, snapshot >>

\* ------------------------------------------------------ the collecting loop
\* for future in as_completed(future_to_scraper): the comprehension is over,
\* as_completed notes the futures that are finished already
StartCollect ==
    /\ pc = "submitting"
    /\ next_submit > Len(fut)
    /\ pc' = "collecting"
    /\ finished' = {j \in Jobs : fut[j].state = "done"}
    /\ snapshot' = finished'
    /\ waiter' = <<>>
    /\ UNCHANGED pureVars
    /\ UNCHANGED << scrapers, scans, ncpu, request, next_submit, fut, worker, broken,
                    yielded, results_by_airline, errors, order, consumed, ranOn, crashed >>

\* MayYield that takes the waiter's list from its end
MayYieldLifo(j) ==
    IF finished # {} THEN j \in finished
    ELSE waiter # <<>> /\ j = waiter[Len(waiter)]

\* the future as_completed may yield next: any of those finished before the
\* call, and after them the head of the waiter's list
MayYield(j) ==
    IF finished # {} THEN j \in finished
    ELSE waiter # <<>> /\ j = Head(waiter)

\* the price None of an offer whose price is not a number: comparing it with
\* any price raises TypeError
NoPrice == -1

OfferUnpriced == Offer(Label(12, 4), Label(12, 23), NoPrice, FALSE)

\* airline_results.sort(key=lambda x: x.price) raises: the sort compares the
\* key of every offer with a neighbour's as soon as the list has two offers
SortRaises(s) == Len(s) >= 2 /\ \E i \in 1..Len(s) : s[i].price = NoPrice

\* the TypeError of the comparison
SortTypeError ==
    PlainException("TypeError", "'<' not supported between instances of 'NoneType' and 'float'")

\* what the except clauses of the try statement see of a future's outcome:
\* the exception of future.result(), or the one the ranking raises
InTry(out) ==
    IF out.kind = "offers" /\ SortRaises(out.offers) THEN Failed(SortTypeError) ELSE out

\* TryResults without  if not airline_results: continue
TryResultsKeepsEmpty(out, name, req, dict) ==
    IF out.kind = "offers"
    THEN DictSet(dict, name, Rank(out.offers, req))
    ELSE dict

\* the try block on the result of job j: results_by_airline afterwards
\* (not airline_results  holds of None and of the empty list)
TryResults(out, name, req, dict) ==
    IF out.kind = "offers" /\ out.offers # <<>> /\ ~SortRaises(out.offers)
    THEN DictSet(dict, name, Rank(out.offers, req))
    ELSE dict

\* ExceptErrors with the ranking outside the try statement
ExceptErrorsOfResultOnly(out, name, errs) ==
    IF out.kind # "exception" THEN errs
    ELSE IF Handler(out.exc) = "diagnosed" THEN Append(errs, DiagnosedEntry(name, out.exc))
    ELSE IF Handler(out.exc) = "undiagnosed" THEN Append(errs, UndiagnosedEntry(name, out.exc))
    ELSE errs

\* the except clauses on the result of job j: errors afterwards
ExceptErrors(out, name, errs) ==
    IF InTry(out).kind # "exception" THEN errs
    ELSE IF Handler(InTry(out).exc) = "diagnosed"
    THEN Append(errs, DiagnosedEntry(name, InTry(out).exc))
    ELSE IF Handler(InTry(out).exc) = "undiagnosed"
    THEN Append(errs, UndiagnosedEntry(name, InTry(out).exc))
    ELSE errs

\* no except clause takes the exception: it leaves scan_all
Propagates(out) == InTry(out).kind = "exception" /\ Handler(InTry(out).exc) = "propagate"

\* one iteration of the for loop, on the future of job j
Collect(j) ==
    /\ pc = "collecting"
    /\ MayYield(j)
    /\ finished' = finished \ {j}
    /\ waiter' = SelectSeq(waiter, LAMBDA k : k # j)
    /\ yielded' = yielded \cup {j}
    /\ consumed' = Append(consumed, j)
    /\ results_by_airline' = TryResults(fut[j].out, scrapers[j].name, request, results_by_airline)
    /\ errors' = ExceptErrors(fut[j].out, scrapers[j].name, errors)
    /\ pc' = IF Propagates(fut[j].out) THEN "raised" ELSE pc
    /\ UNCHANGED pureVars
    /\ UNCHANGED << scrapers, scans, ncpu, request, next_submit, fut, worker, broken,
                    order, ranOn, crashed, snapshot >>

\* LoopDone that leaves the loop after the first completion
LoopDoneFirst == yielded # {} \/ Jobs = {}

\* LoopDone that gives up on the jobs that do not terminate
LoopDoneSkipsHung == \A j \in Jobs : j \in yielded \/ fut[j].state = "hung"

\* as_completed is exhausted: every future has been yielded
LoopDone == yielded = Jobs

\* return results_by_airline, errors
Return ==
    /\ pc = "collecting"
    /\ LoopDone
    /\ pc' = "returned"
    /\ UNCHANGED pureVars
    /\ UNCHANGED << scrapers, scans, ncpu, scanVars >>

Next ==
    \/ \E name \in Names : RegisterScraper(name)
    \/ \E req \in Requests : ScanAll(req)
    \/ SubmitNext
    \/ SubmitBroken
    \/ \E w \in Workers : StartJob(w)
    \/ \E j \in Jobs, offers \in OfferSeqs : JobReturn(j, offers)
    \/ \E j \in Jobs : JobReturnNone(j)
    \/ \E j \in Jobs, exc \in Raised : JobRaise(j, exc)
    \/ \E j \in Jobs : JobHang(j)
    \/ \E j \in Jobs : JobCrash(j)
    \/ StartCollect
    \/ \E j \in Jobs : Collect(j)
    \/ Return

Spec == Init /\ [][Next]_vars

\* job j's process ends one way or another, or is found never to end
Finish(j) ==
    /\ j \in Jobs
    /\ \/ \E offers \in OfferSeqs : JobReturn(j, offers)
       \/ JobReturnNone(j)
       \/ \E exc \in Raised : JobRaise(j, exc)
       \/ JobHang(j)
       \/ JobCrash(j)

\* the next step of the thread that runs scan_all
Orchestrator ==
    \/ SubmitNext
    \/ SubmitBroken
    \/ StartCollect
    \/ \E j \in Jobs : Collect(j)
    \/ Return

\* The thread running scan_all keeps running, the pool hands queued calls to
\* free workers, and every started process is scheduled.
FairSpec ==
    /\ Spec
    /\ WF_vars(Orchestrator)
    /\ WF_vars(\E w \in Workers : StartJob(w))
    /\ \A j \in 1..MaxJobs : WF_vars(Finish(j))

\* ------------------------------------------------- vocabulary of the claims
JobName(j) == scrapers[j].name

Out(j) == fut[j].out

\* the future of job j holds what scrape returned: a list of offers or None
Succeeded(j) == fut[j].state = "done" /\ Out(j).kind \in {"offers", "nothing"}

\* the future of job j holds an exception
FailedJob(j) == fut[j].state = "done" /\ Out(j).kind = "exception"

\* job j failed because its own scrape raised
JobRaised(j) == FailedJob(j) /\ Out(j).exc.cls \in {"ScraperError", "Exception"}

WithOffers(j) == Succeeded(j) /\ Out(j).offers # <<>>

DistinctNames == \A j, k \in Jobs : j # k => JobName(j) # JobName(k)

JobNames == {JobName(j) : j \in Jobs}

ErrorsOf(name) == {i \in DOMAIN errors : errors[i].airline = name}

Pos(seq, x) == CHOOSE i \in DOMAIN seq : seq[i] = x

Times(seq, x) == Cardinality({i \in DOMAIN seq : seq[i] = x})

\* the failed jobs in the order the loop handled them
FailedConsumed == SelectSeq(consumed, LAMBDA j : FailedJob(j))

\* the diagnostic paths an error entry carries: its keys are airline, message
\* and screenshot_path
EntryPaths(e) == IF e.screenshot_path = None THEN <<>> ELSE <<e.screenshot_path>>

InScan == pc \in {"submitting", "collecting"}

AnyHung == \E j \in Jobs : fut[j].state = "hung"

\* ------------------------------------------------------------------- C1
C1_RaiseStep(j) ==
    /\ ( /\ fut[j].state = "running"
         /\ fut'[j].state = "done"
         /\ fut'[j].out.kind = "exception"
         /\ fut'[j].out.exc.cls # "BrokenProcessPool" )
       => /\ \A k \in Jobs \ {j} : fut'[k] = fut[k]
          /\ pc' = pc
          /\ errors' = errors
          /\ results_by_airline' = results_by_airline
    /\ ( JobRaised(j) /\ j \notin yielded /\ j \in yielded' )
       => /\ pc' = pc
          /\ results_by_airline' = results_by_airline
          /\ Len(errors') = Len(errors) + 1
          /\ SubSeq(errors', 1, Len(errors)) = errors
          /\ errors'[Len(errors')].airline = JobName(j)
          /\ \A k \in Jobs \ {j} : fut'[k] = fut[k]

C1_Accounted ==
    /\ pc = "raised" => broken
    /\ Len(errors) = Len(FailedConsumed)
    /\ pc = "returned" => \A j \in Jobs : JobRaised(j) => Times(consumed, j) = 1

\* C1: a job whose scrape raises (ScraperError or another Exception) changes
\* no sibling's future when it fails; when the loop handles it, exactly one
\* entry for that job is appended to errors, results_by_airline and the other
\* entries stay as they are and scan_all goes on; scan_all raises only on a
\* broken pool; at the return each job that raised was handled exactly once and
\* errors has one entry per failed job handled.
C1_RaiseContained ==
    /\ [][\A j \in Jobs : C1_RaiseStep(j)]_vars
    /\ []C1_Accounted

C1_Witness ==
    /\ pc = "returned"
    /\ \E j, k \in Jobs :
          /\ JobRaised(j) /\ Out(j).exc.cls = "Exception"
          /\ WithOffers(k)
          /\ Pos(order, j) < Pos(order, k)
          /\ JobName(k) \in DOMAIN results_by_airline
          /\ Len(errors) = 1

\* ------------------------------------------------------------------- C2
\* C2: when scan_all returns, the only jobs reported as failed with a died
\* process (BrokenProcessPool) are the jobs whose own process died: a crash of
\* one job leaves every sibling to its own outcome.
C2_CrashContained ==
    pc = "returned" => \A j \in Jobs : (FailedJob(j) /\ Out(j) = BrokenPool) => j \in crashed

\* ------------------------------------------------------------------- C3
\* C3: the error entry of a job that failed with a ScraperError carries all
\* the paths of its screenshot_paths, the entry of a job that failed with
\* another exception carries none.
C3_AllPathsReported ==
    /\ Len(errors) = Len(FailedConsumed)
    /\ \A i \in DOMAIN errors :
          i <= Len(FailedConsumed) =>
             EntryPaths(errors[i]) =
                IF Out(FailedConsumed[i]).exc.cls = "ScraperError"
                THEN Out(FailedConsumed[i]).exc.screenshot_paths
                ELSE <<>>

\* ------------------------------------------------------------------- C4
\* C4: when scan_all returns and the jobs' names are pairwise distinct, a job
\* that returned offers has its key in results_by_airline and no error entry,
\* a job that failed has exactly one error entry and no key, a job that
\* returned no offer has neither, and no key or entry bears another name.
C4_AccountedOnce ==
    (pc = "returned" /\ DistinctNames) =>
        /\ \A j \in Jobs :
              /\ WithOffers(j) =>
                    JobName(j) \in DOMAIN results_by_airline /\ ErrorsOf(JobName(j)) = {}
              /\ FailedJob(j) =>
                    Cardinality(ErrorsOf(JobName(j))) = 1
                    /\ JobName(j) \notin DOMAIN results_by_airline
              /\ (Succeeded(j) /\ Out(j).offers = <<>>) =>
                    JobName(j) \notin DOMAIN results_by_airline /\ ErrorsOf(JobName(j)) = {}
        /\ DOMAIN results_by_airline \subseteq JobNames
        /\ \A i \in DOMAIN errors : errors[i].airline \in JobNames

C4_Witness ==
    /\ pc = "returned"
    /\ DistinctNames
    /\ \E j, k \in Jobs : WithOffers(j) /\ FailedJob(k)

\* ------------------------------------------------------------------- C5
\* C5: when scan_all returns, every job's future is done and has been handled
\* by the loop: its offers are in results_by_airline or its failure in errors.
C5_NoEarlyReturn ==
    pc = "returned" =>
        \A j \in Jobs :
            /\ fut[j].state = "done"
            /\ j \in yielded
            /\ WithOffers(j) => JobName(j) \in DOMAIN results_by_airline
            /\ FailedJob(j) => ErrorsOf(JobName(j)) # {}

C5_Witness ==
    /\ pc = "returned"
    /\ Cardinality(Jobs) >= 2
    /\ snapshot = {}
    /\ \E j \in Jobs : WithOffers(j)

\* ------------------------------------------------------------------- C6
\* what the outcomes of the futures alone determine, whatever the order in
\* which they completed
ExpectedResults ==
    [n \in {JobName(j) : j \in {k \in Jobs : WithOffers(k)}} |->
        Rank(Out(CHOOSE j \in Jobs : WithOffers(j) /\ JobName(j) = n).offers, request)]

ExpectedEntry(j) ==
    IF Out(j).exc.cls = "ScraperError"
    THEN [airline |-> JobName(j), message |-> Out(j).exc.message,
          screenshot_path |-> Out(j).exc.screenshot_path]
    ELSE [airline |-> JobName(j), message |-> Out(j).exc.message,
          screenshot_path |-> None]

\* C6: when scan_all returns and the jobs' names are pairwise distinct, the
\* keys of results_by_airline, the list under each key and the multiset of
\* error entries are those the jobs' outcomes determine, in whatever order the
\* jobs completed and were handled.
C6_OrderIndependent ==
    (pc = "returned" /\ DistinctNames) =>
        /\ results_by_airline = ExpectedResults
        /\ \A e \in Range(errors) \cup {ExpectedEntry(j) : j \in {k \in Jobs : FailedJob(k)}} :
              Times(errors, e) =
                 Cardinality({j \in Jobs : FailedJob(j) /\ ExpectedEntry(j) = e})

\* the job submitted first completes last, succeeds, and its offers are there
\* beside its sibling's
C6_Witness ==
    /\ pc = "returned"
    /\ DistinctNames
    /\ order = <<2, 1>>
    /\ WithOffers(1) /\ WithOffers(2)
    /\ DOMAIN results_by_airline = {JobName(1), JobName(2)}

\* ------------------------------------------------------------------- C7
\* C7 as stated: the loop handles the jobs in the order they completed, so
\* errors is in the completion order of the failed jobs.
C7_CompletionOrder ==
    \A a, b \in DOMAIN consumed :
        a < b => Pos(order, consumed[a]) < Pos(order, consumed[b])

\* C7 as amended: the loop handles the jobs in the order they completed, except
\* that the jobs already complete when the collecting starts are handled first
\* and in no particular order; errors holds the failed jobs in the order the
\* loop handled them; a job that is complete is never kept waiting for one
\* that is not.
C7_ArrivalOrder ==
    /\ \A a, b \in DOMAIN consumed :
          a < b => \/ consumed[a] \in snapshot /\ consumed[b] \in snapshot
                   \/ Pos(order, consumed[a]) < Pos(order, consumed[b])
    /\ Len(errors) = Len(FailedConsumed)
    /\ \A i \in DOMAIN errors :
          i <= Len(FailedConsumed) => errors[i].airline = JobName(FailedConsumed[i])
    /\ (pc = "collecting" /\ \E j \in Jobs : fut[j].state = "done" /\ j \notin yielded)
          => \E k \in Jobs : MayYield(k) /\ fut[k].state = "done"

\* the job submitted second failed and is in errors while the job submitted
\* first is still running
C7_Witness ==
    /\ pc = "collecting"
    /\ Len(scrapers) >= 2
    /\ fut[1].state = "running"
    /\ consumed = <<2>>
    /\ FailedJob(2)
    /\ Len(errors) = 1

C9_Allowed(f, g) ==
    \/ g = f
    \/ f.state = "unsubmitted" /\ g.state = "pending"
    \/ f.state = "pending" /\ g.state = "running"
    \/ f.state = "running" /\ g.state \in {"hung", "done"}
    \/ f.state = "hung" /\ g.state = "done"

\* C9: within one scan_all call a job goes from pending to running and from
\* running to succeeded or failed, and makes no other move: it is submitted
\* once, never run again, and a finished job keeps its outcome.
C9_StateMachine ==
    [][scans' = scans => \A j \in Jobs : C9_Allowed(fut[j], fut'[j])]_vars

\* ------------------------------------------------------------------ C10
\* C10: a scan_all call whose jobs all return or raise (none hangs, no process
\* dies) returns; while a job hangs scan_all does not return.
C10_NoTimeout ==
    /\ InScan ~> (pc = "returned" \/ AnyHung \/ broken)
    /\ [](AnyHung => InScan)

\* every other job is handled and scan_all still waits for the one that hangs
C10_Witness ==
    /\ pc = "collecting"
    /\ Len(fut) >= 2
    /\ fut[1].state = "hung"
    /\ yielded = Jobs \ {1}
    /\ WithOffers(2)

\* =====================================================================
\* The ranking of one job's offers (scan_all, lines 64-106) applied on its
\* own to offer sequences of up to MaxPad + MaxLen offers.

\* ---------------------------------------------------------------- bounds
MaxPad == 10
MaxLen == 3

\* the orchestrator's own variables
orchVars == << scrapers, pc, scans, ncpu, scanVars >>

\* no orchestrator is running: its variables stay as __init__ leaves them
NoOrchestrator ==
    /\ scrapers = <<>>
    /\ pc = "idle"
    /\ scans = 0
    /\ ncpu = 1
    /\ request = NoRequest
    /\ next_submit = 1
    /\ fut = <<>>
    /\ worker = [w \in 1..ncpu |-> 0]
    /\ broken = FALSE
    /\ finished = {}
    /\ waiter = <<>>
    /\ yielded = {}
    /\ results_by_airline = EmptyDict
    /\ errors = <<>>
    /\ order = <<>>
    /\ consumed = <<>>
    /\ ranOn = <<>>
    /\ crashed = {}
    /\ snapshot = {}

\* labels a scraper may put on an offer
Dec3 == <<"D", "e", "c", " ", "3">>
Dec03 == <<"D", "e", "c", " ", "0", "3">>
Dec30 == <<"D", "e", "c", " ", "3", "0">>
Dec4 == <<"D", "e", "c", " ", "4">>
Dec23 == <<"D", "e", "c", " ", "2", "3">>
December23 == <<"D", "e", "c", "e", "m", "b", "e", "r", " ", "2", "3">>
Dec24 == <<"D", "e", "c", " ", "2", "4">>

\* the offers the short part of a raw sequence is drawn from
RankOffers ==
    { Offer(Dec3, Dec23, 300, FALSE),
      Offer(Dec03, December23, 300, FALSE),
      Offer(Dec3, Dec24, 50, TRUE),
      Offer(Dec4, Dec23, 60, FALSE),
      Offer(Dec30, Dec23, 40, FALSE),
      Offer(Dec4, Dec24, 300, FALSE) }

\* the i-th offer of the long part: a November offer, prices 100..300 in no
\* order, the offers i and i + 5 at the same price
Filler(i) == Offer(Label(11, i), Label(11, 20 + (i % 5)), 100 + 50 * ((3 * i) % 5), FALSE)

Fillers(k) == [i \in 1..k |-> Filler(i)]

ShortSeqs == UNION {[1..n -> RankOffers] : n \in 0..MaxLen}

\* the raw offer sequences a job may return: airline_results
RawSeqs ==
    {Fillers(k) \o s : k \in 0..MaxPad, s \in ShortSeqs}
        \cup {s \o Fillers(k) : k \in 0..MaxPad, s \in ShortSeqs}

RankRequests ==
    { [departure_date |-> [month |-> 12, day |-> 3],
       return_date |-> [month |-> 12, day |-> 23]] }

RankInit ==
    /\ NoOrchestrator
    /\ call \in {[fn |-> "rank", airline_results |-> s, request |-> r] :
                    s \in RawSeqs \ {<<>>}, r \in RankRequests}
    /\ result = NoResult

\* lines 64-106 of scan_all on call.airline_results
ApplyRank ==
    /\ call.fn = "rank"
    /\ result = NoResult
    /\ result' = [final_list |-> Rank(call.airline_results, call.request),
                  exact_match |-> ExactMatch(call.airline_results, call.request)]
    /\ UNCHANGED << call, orchVars >>

RankNext == ApplyRank

RankSpec == RankInit /\ [][RankNext]_vars

\* ------------------------------------------- vocabulary of the ranking claims
Ranked == call.fn = "rank" /\ result # NoResult

Raw == call.airline_results

Final == result.final_list

\* the four accepted representations of a requested date
Reps(date) ==
    {mon \o <<" ">> \o d : mon \in {MonthAbbr[date.month], MonthFull[date.month]},
                           d \in {DayUnpadded(date.day), DayPadded(date.day)}}

\* both labels of the offer contain an accepted representation
Qualifies(o, req) ==
    /\ \E rep \in Reps(req.departure_date) : Contains(rep, o.departure_date)
    /\ \E rep \in Reps(req.return_date) : Contains(rep, o.return_date)

Qualifying == {i \in 1..Len(Raw) : Qualifies(Raw[i], call.request)}

\* the offers of s at price p, in the order of s
AtPrice(s, p) == SelectSeq(s, LAMBDA o : o.price = p)

NonDecreasing(s) == \A i, k \in 1..Len(s) : i < k => s[i].price <= s[k].price

PrefixOf(a, b) == Len(a) <= Len(b) /\ SubSeq(b, 1, Len(a)) = a

Min(a, b) == IF a < b THEN a ELSE b

\* r is the first k offers of s stably sorted by price: it has min(Len(s), k)
\* offers in non-decreasing price order, at every price it holds the first
\* offers of s at that price in their original order, and an offer left out
\* is no cheaper than any offer taken
IsCheapestStable(r, s, k) ==
    /\ Len(r) = Min(Len(s), k)
    /\ NonDecreasing(r)
    /\ \A i \in 1..Len(r) : r[i] \in Range(s)
    /\ \A p \in {s[i].price : i \in 1..Len(s)} :
          /\ PrefixOf(AtPrice(r, p), AtPrice(s, p))
          /\ AtPrice(r, p) # AtPrice(s, p) => \A i \in 1..Len(r) : r[i].price <= p

\* C11: when no offer of a non-empty raw sequence of n offers matches the
\* requested dates, the ranked list is exactly the first min(n, 9) offers of
\* the sequence stably sorted by price ascending.
C11_NoMatchCheapestNine ==
    (Ranked /\ Qualifying = {}) =>
        /\ result.exact_match = <<>>
        /\ IsCheapestStable(Final, Raw, 9)

\* twelve offers, none matching, two of the nine taken at the same price and
\* the cheapest not returned first
C11_Witness ==
    /\ Ranked
    /\ Qualifying = {}
    /\ Len(Raw) = 12
    /\ Len(Final) = 9
    /\ Final[1] # Raw[1]
    /\ \E i \in 1..8 : Final[i].price = Final[i + 1].price /\ Final[i] # Final[i + 1]

\* C12: whenever some offer matches the requested dates, the selected exact
\* match is at position 0 of the ranked list and no entry at a later position
\* is that offer again, also when the raw sequence holds offers equal in all
\* fields.
C12_PinnedOnce ==
    (Ranked /\ Qualifying # {}) =>
        /\ Len(Final) >= 1
        /\ result.exact_match = <<Final[1]>>
        /\ \A p \in 2..Len(Final) : Final[p] # Final[1]

\* s without the first occurrence of x
Others(s, x) ==
    LET first == CHOOSE i \in 1..Len(s) : s[i] = x /\ \A k \in 1..(i - 1) : s[k] # x
    IN  [p \in 1..(Len(s) - 1) |-> IF p < first THEN s[p] ELSE s[p + 1]]

\* C13: when an exact match exists among n offers, the ranked list has exactly
\* min(n, 10) entries: the exact match, followed by the min(n-1, 9) cheapest
\* of the other n-1 offers in non-decreasing price order, stable among equal
\* prices.
C13_MatchThenCheapestNine ==
    (Ranked /\ Qualifying # {}) =>
        /\ Len(Final) = Min(Len(Raw), 10)
        /\ Qualifies(Final[1], call.request)
        /\ Final[1] \in Range(Raw)
        /\ IsCheapestStable(Tail(Final), Others(Raw, Final[1]), 9)

\* more than ten offers with one match that is not the cheapest: ten entries
C13_Witness ==
    /\ Ranked
    /\ Len(Raw) > 10
    /\ Cardinality(Qualifying) = 1
    /\ Len(Final) = 10
    /\ Final[1].price > Final[2].price
    /\ \E i \in 1..Len(Raw) : Raw[i].price < Final[1].price /\ Raw[i] \notin Range(Final)

\* C14: the exact match is the first offer, in stable price-ascending order,
\* whose departure label contains one of the four accepted departure
\* representations and whose return label contains one of the four accepted
\* return representations: the cheapest qualifying offer, the earliest of the
\* raw sequence among equally cheap ones, never an offer matching on one label
\* only.
C14_FirstQualifying ==
    Ranked =>
        IF Qualifying = {} THEN result.exact_match = <<>>
        ELSE \E i \in Qualifying :
                /\ result.exact_match = <<Raw[i]>>
                /\ Final[1] = Raw[i]
                /\ \A k \in Qualifying :
                      \/ Raw[i].price < Raw[k].price
                      \/ Raw[i].price = Raw[k].price /\ i <= k

\* the offer matches the request on exactly one of its two labels
OneLabelOnly(o, req) ==
    /\ ~Qualifies(o, req)
    /\ \/ \E rep \in Reps(req.departure_date) : Contains(rep, o.departure_date)
       \/ \E rep \in Reps(req.return_date) : Contains(rep, o.return_date)

\* two different qualifying offers at the same price, the earlier one chosen,
\* next to a cheaper offer that matches on one label only
C14_Witness ==
    /\ Ranked
    /\ \E i, k \in Qualifying :
          /\ i < k
          /\ Raw[i].price = Raw[k].price
          /\ Raw[i] # Raw[k]
          /\ result.exact_match = <<Raw[i]>>
    /\ \E i \in 1..Len(Raw) :
          /\ OneLabelOnly(Raw[i], call.request)
          /\ Raw[i].price < Final[1].price

\* the label names the day of the date: it contains an accepted representation
\* that is not followed by a further digit
Denotes(label, date) ==
    \E rep \in Reps(date) : \E i \in 0..(Len(label) - Len(rep)) :
        /\ SubSeq(label, i + 1, i + Len(rep)) = rep
        /\ \/ i + Len(rep) = Len(label)
           \/ label[i + Len(rep) + 1] \notin Range(Digits)

\* C15: an offer is selected as the exact match only if its departure label
\* denotes the requested departure day and its return label the requested
\* return day; a label naming another day of the month ("Dec 30" for a
\* requested December 3) is never selected.
C15_DenotesRequestedDay ==
    (Ranked /\ result.exact_match # <<>>) =>
        /\ Denotes(result.exact_match[1].departure_date, call.request.departure_date)
        /\ Denotes(result.exact_match[1].return_date, call.request.return_date)

\* ------------------------------------------------------------------ C16
\* the job succeeded with an empty list of offers or with no list at all
ReturnedNothing(j) == Succeeded(j) /\ Out(j).offers = <<>>

\* C16: when the loop handles a job that succeeded with an empty offer list
\* (or with None), results_by_airline and errors stay exactly as they are and
\* scan_all goes on; at the return such a job, if no other job bears its name,
\* has neither a key in results_by_airline nor an entry in errors.
C16_EmptyContributesNothing ==
    /\ [][\A j \in Jobs :
             (ReturnedNothing(j) /\ j \notin yielded /\ j \in yielded') =>
                 /\ results_by_airline' = results_by_airline
                 /\ errors' = errors
                 /\ pc' = pc]_vars
    /\ [](pc = "returned" =>
             \A j \in Jobs :
                 (ReturnedNothing(j) /\ \A k \in Jobs \ {j} : JobName(k) # JobName(j)) =>
                     /\ JobName(j) \notin DOMAIN results_by_airline
                     /\ ErrorsOf(JobName(j)) = {})

\* a job that returned [] or None was handled after its sibling's offers were
\* stored, and the sibling's entry is what scan_all returns
C16_Witness ==
    /\ pc = "returned"
    /\ Len(fut) = 2
    /\ \E j, k \in Jobs :
          /\ ReturnedNothing(j)
          /\ WithOffers(k)
          /\ JobName(j) # JobName(k)
          /\ consumed = <<k, j>>
          /\ DOMAIN results_by_airline = {JobName(k)}
          /\ errors = <<>>

\* =====================================================================
\* The construction of a FlightRequest (src/core/models.py) on its own.

\* ---------------------------------------------------------------- bounds
MaxDay == 2
MaxAdults == 2

\* datetime.date: a calendar date
Date(year, month, day) == [year |-> year, month |-> month, day |-> day]

\* DateGE that lets equal dates pass
DateAfter(a, b) ==
    \/ a.year > b.year
    \/ a.year = b.year /\ a.month > b.month
    \/ a.year = b.year /\ a.month = b.month /\ a.day > b.day

\* a >= b on datetime.date: by year, then month, then day
DateGE(a, b) ==
    \/ a.year > b.year
    \/ a.year = b.year /\ a.month > b.month
    \/ a.year = b.year /\ a.month = b.month /\ a.day >= b.day

Constructed == [raised |-> FALSE, message |-> ""]

ValueError(message) == [raised |-> TRUE, message |-> message]

\* PostInit without the comparison of the two dates
PostInitNoDateCheck(origin, destination, departure_date, return_date, adults) ==
    IF ~Truthy(origin) \/ ~Truthy(destination)
    THEN ValueError("Origin and destination are required")
    ELSE IF adults < 1
    THEN ValueError("At least 1 adult passenger required")
    ELSE Constructed

\* FlightRequest.__post_init__
PostInit(origin, destination, departure_date, return_date, adults) ==
    IF ~Truthy(origin) \/ ~Truthy(destination)
    THEN ValueError("Origin and destination are required")
    ELSE IF DateGE(departure_date, return_date)
    THEN ValueError("Return date must be after departure date")
    ELSE IF adults < 1
    THEN ValueError("At least 1 adult passenger required")
    ELSE Constructed

\* the field values a caller may pass
Airports == {"", None, "LOS", "CAN"}

Dates == {Date(y, m, d) : y \in {2025, 2026}, m \in {11, 12}, d \in 1..MaxDay}

AdultCounts == (0 - 1)..MaxAdults

RequestInit ==
    /\ NoOrchestrator
    /\ call \in {[fn |-> "FlightRequest", origin |-> o, destination |-> d,
                  departure_date |-> dep, return_date |-> ret, adults |-> a] :
                    o \in Airports, d \in Airports, dep \in Dates, ret \in Dates,
                    a \in AdultCounts}
    /\ result = NoResult

\* FlightRequest(origin, destination, departure_date, return_date, adults)
Construct ==
    /\ call.fn = "FlightRequest"
    /\ result = NoResult
    /\ result' = PostInit(call.origin, call.destination, call.departure_date,
                          call.return_date, call.adults)
    /\ UNCHANGED << call, orchVars >>

RequestNext == Construct

RequestSpec == RequestInit /\ [][RequestNext]_vars

\* ------------------------------------------------------------------ C17
\* the day number of a date in a calendar of 12 months of 31 days
DayNumber(date) == (date.year * 12 + date.month) * 31 + date.day

Empty(airport) == airport \in {"", None}

\* C17: constructing a FlightRequest raises if and only if the origin is
\* empty, or the destination is empty, or the departure date is on or after
\* the return date, or the passenger count is below 1.
C17_ConstructionFailsIff ==
    (call.fn = "FlightRequest" /\ result # NoResult) =>
        (result.raised <=>
            \/ Empty(call.origin)
            \/ Empty(call.destination)
            \/ DayNumber(call.departure_date) >= DayNumber(call.return_date)
            \/ call.adults < 1)

\* departure and return on the same day, everything else valid: raised
C17_Witness ==
    /\ call.fn = "FlightRequest"
    /\ result # NoResult
    /\ result.raised
    /\ ~Empty(call.origin) /\ ~Empty(call.destination)
    /\ call.adults >= 1
    /\ call.departure_date = call.return_date

\* ------------------------------------------------------------------ C18
\* the jobs registered under the name that returned offers
WithOffersNamed(name) == {j \in Jobs : JobName(j) = name /\ WithOffers(j)}

\* the job of W that comes last in seq
LastIn(seq, W) == CHOOSE j \in W : \A k \in W : Pos(seq, k) <= Pos(seq, j)

SameNamePair == \E j, k \in Jobs : j # k /\ JobName(j) = JobName(k)

\* every registered scraper has its own future and each was handled once;
\* each ran on a worker unless the pool broke first
C18_BothExecuted ==
    /\ pc = "collecting" => Len(fut) = Len(scrapers)
    /\ pc = "returned" =>
          \A j \in Jobs : Times(consumed, j) = 1 /\ (ranOn[j] = 0 => broken)

\* failures of same-named jobs each have their own entry in errors
C18_OwnErrorEntries ==
    \A name \in JobNames :
        Cardinality(ErrorsOf(name)) = Cardinality({j \in Jobs : JobName(j) = name /\ FailedJob(j)})

\* C18 as stated: two jobs of the same name are both executed and, when both
\* return offers, the single entry under that name is the ranked list of the
\* one that completed last; failures each produce their own error entry.
C18_LastCompletedWins ==
    /\ C18_BothExecuted
    /\ pc = "returned" =>
        /\ C18_OwnErrorEntries
        /\ \A name \in JobNames :
              IF WithOffersNamed(name) = {} THEN name \notin DOMAIN results_by_airline
              ELSE /\ name \in DOMAIN results_by_airline
                   /\ results_by_airline[name] =
                         Rank(Out(LastIn(order, WithOffersNamed(name))).offers, request)

\* C18, amended: the single entry under that name is the ranked list of the
\* one the loop handled last, which is the one that completed last unless
\* both had completed before the loop started.
C18_LastHandledWins ==
    /\ C18_BothExecuted
    /\ pc = "returned" =>
        /\ C18_OwnErrorEntries
        /\ \A name \in JobNames :
              IF WithOffersNamed(name) = {} THEN name \notin DOMAIN results_by_airline
              ELSE /\ name \in DOMAIN results_by_airline
                   /\ results_by_airline[name] =
                         Rank(Out(LastIn(consumed, WithOffersNamed(name))).offers, request)
                   /\ LET j == LastIn(consumed, WithOffersNamed(name))
                      IN  \A k \in WithOffersNamed(name) \ {j} :
                             Pos(order, j) < Pos(order, k) => {j, k} \subseteq snapshot

\* two jobs of one name returned different offers; the entry is the ranked
\* list of the one handled last and the other's list is gone
C18_Witness ==
    /\ pc = "returned"
    /\ Len(fut) = 2
    /\ JobName(1) = JobName(2)
    /\ WithOffers(1) /\ WithOffers(2)
    /\ Out(1).offers # Out(2).offers
    /\ order = <<1, 2>>
    /\ consumed = <<1, 2>>
    /\ DOMAIN results_by_airline = {JobName(1)}
    /\ results_by_airline[JobName(1)] = Rank(Out(2).offers, request)
    /\ results_by_airline[JobName(1)] # Rank(Out(1).offers, request)

\* ------------------------------------------------------------------ C19
\* the exception behind the i-th entry of errors
ExcOf(i) == Out(FailedConsumed[i]).exc

Diagnosed(exc) == exc.cls = "ScraperError"

\* the two entries differ in something other than the job's name
Distinguishable(e1, e2) ==
    e1.message # e2.message \/ e1.screenshot_path # e2.screenshot_path

\* C19 as stated: the entries of a diagnosed and of an undiagnosed failure
\* are distinguishable, whatever their messages and also when the diagnosed
\* failure carries no screenshot.
C19_KindVisible ==
    \A i, k \in DOMAIN errors :
        (Diagnosed(ExcOf(i)) /\ ~Diagnosed(ExcOf(k))) => Distinguishable(errors[i], errors[k])

\* C19, amended: scan_all builds the entry by the kind of the exception alone:
\* the message is the exception's message in both cases, the screenshot_path is
\* the ScraperError's own for a diagnosed failure and None for an undiagnosed
\* one; so an entry with a screenshot_path comes from a diagnosed failure, and
\* the entry of a diagnosed failure differs from that of an undiagnosed one
\* with the same message exactly when the ScraperError carries a screenshot_path.
C19_KindByScreenshotPath ==
    /\ Len(errors) = Len(FailedConsumed)
    /\ \A i \in DOMAIN errors :
          /\ errors[i].message = ExcOf(i).message
          /\ errors[i].screenshot_path =
                IF Diagnosed(ExcOf(i)) THEN ExcOf(i).screenshot_path ELSE None
          /\ errors[i].screenshot_path # None => Diagnosed(ExcOf(i))
    /\ \A i, k \in DOMAIN errors :
          (Diagnosed(ExcOf(i)) /\ ~Diagnosed(ExcOf(k)) /\ ExcOf(i).message = ExcOf(k).message) =>
              (Distinguishable(errors[i], errors[k]) <=> ExcOf(i).screenshot_path # None)

\* a diagnosed failure with a screenshot and an undiagnosed failure with the
\* same message, both reported
C19_Witness ==
    /\ pc = "returned"
    /\ Len(errors) = 2
    /\ \E i, k \in DOMAIN errors :
          /\ Diagnosed(ExcOf(i)) /\ ExcOf(i).screenshot_path # None
          /\ ~Diagnosed(ExcOf(k))
          /\ errors[i].message = errors[k].message
          /\ Distinguishable(errors[i], errors[k])

\* =====================================================================
\* EthiopianScraper.scrape (src/scrapers/ethiopian_scraper.py) on its own, in
\* an environment where the browser steps and the writing of diagnostic
\* artifacts may each fail.  A message built with an f-string is the pair of
\* its fixed text and the inserted message; the message of any other
\* exception is a one-element sequence.

\* what may go wrong in a run of scrape: the step of the browser session that
\* fails, if any ("open": sb.open, "timeout": wait_for_element on the matrix,
\* "parse": the extraction of the offers), and the faults of the file system and of
\* the screenshot call
Environments ==
    [ primary : {"none", "open", "timeout", "parse"},
      progress_fails : BOOLEAN,
      makedirs_fails : BOOLEAN,
      save_fails : BOOLEAN,
      write_fails : BOOLEAN,
      offers : {<<>>, <<OfferMatch, OfferCheap>>} ]

\* str(e) of the exception the failing browser step raises
PrimaryMessage(primary) ==
    IF primary = "open" THEN "page not reachable"
    ELSE IF primary = "timeout" THEN "element was not present after 60 seconds"
    ELSE "could not convert string to float"

StepPaths ==
    << "ethiopian_step_1_0_start.png", "ethiopian_step_2_1_loaded_page.png",
       "ethiopian_step_3_2_cookies_handled.png", "ethiopian_step_4_3_matrix_loaded.png" >>

\* progress_screenshots after n calls of take_screenshot: the call swallows
\* its own faults and then appends nothing
Progress(env, n) ==
    IF env.progress_fails \/ env.makedirs_fails \/ env.save_fails THEN <<>>
    ELSE SubSeq(StepPaths, 1, n)

\* progress_screenshots when the failing step is reached
ProgressAt(env) ==
    Progress(env, IF env.primary = "open" THEN 1 ELSE IF env.primary = "timeout" THEN 3 ELSE 4)

\* os.makedirs, sb.save_screenshot and the writing of the page source, one
\* after the other and unguarded: the message of the first fault, "" if none
PersistFault(env) ==
    IF env.makedirs_fails THEN "cannot create directory"
    ELSE IF env.save_fails THEN "cannot save screenshot"
    ELSE IF env.write_fails THEN "cannot write file"
    ELSE ""

\* except Exception as e (lines 173-189): os.makedirs is unguarded, the
\* screenshot and the page dump are inside try/except: pass
OuterHandler(env, e) ==
    IF env.makedirs_fails
    THEN Failed(PlainException("Exception", <<"cannot create directory">>))
    ELSE Failed(ScraperErrorInit(<<"Ethiopian scrape failed: ", e>>,
                                 "ethiopian_error.png", "ethiopian_error.html",
                                 ProgressAt(env)))

\* except Exception as e around wait_for_element (lines 92-105): a fault of the
\* unguarded artifact code leaves the handler as a new exception, which is not
\* a ScraperError and so reaches the outer handler
InnerHandler(env, e) ==
    IF PersistFault(env) = ""
    THEN Failed(ScraperErrorInit(<<"Timeout waiting for matrix: ", e>>,
                                 "ethiopian_timeout.png", "ethiopian_timeout.html",
                                 ProgressAt(env)))
    ELSE OuterHandler(env, PersistFault(env))

\* EthiopianScraper.scrape(request)
EthiopianScrape(env) ==
    IF env.primary = "none" THEN Returned(env.offers)
    ELSE IF env.primary = "timeout" THEN InnerHandler(env, PrimaryMessage(env.primary))
    ELSE OuterHandler(env, PrimaryMessage(env.primary))

ScrapeInit ==
    /\ NoOrchestrator
    /\ call \in {[fn |-> "scrape", env |-> env] : env \in Environments}
    /\ result = NoResult

Scrape ==
    /\ call.fn = "scrape"
    /\ result = NoResult
    /\ result' = EthiopianScrape(call.env)
    /\ UNCHANGED << call, orchVars >>

ScrapeNext == Scrape

ScrapeSpec == ScrapeInit /\ [][ScrapeNext]_vars

\* ------------------------------------------------------------------ C20
Scraped == call.fn = "scrape" /\ result # NoResult

\* the error entry scan_all builds from the exception the job raised
CallerEntry(exc) ==
    IF Handler(AcrossProcess(exc)) = "diagnosed" THEN DiagnosedEntry("Ethiopian", AcrossProcess(exc))
    ELSE UndiagnosedEntry("Ethiopian", AcrossProcess(exc))

\* C20: a fault while persisting a diagnostic artifact (creating the
\* directory, saving a screenshot, writing the page dump) is swallowed: the
\* job returns its offers when no step of the scrape failed and fails when one
\* did, the exception it raises is one scan_all handles, and the message of
\* the error entry is built from the message of the step that failed.
C20_SecondaryFaultSwallowed ==
    Scraped =>
        IF call.env.primary = "none"
        THEN result = Returned(call.env.offers)
        ELSE /\ result.kind = "exception"
             /\ Handler(AcrossProcess(result.exc)) # "propagate"
             /\ LET message == CallerEntry(result.exc).message
                IN  message[Len(message)] = PrimaryMessage(call.env.primary)

\* =====================================================================
\* The /search handler of the Telegram bot (src/bot/telegram_bot.py, search)
\* on its own, for a command with well-formed arguments (four or five words,
\* two dates in YYYY-MM-DD).  scan_all is taken by what it returns for the
\* outcomes of the registered jobs in the order its loop handles them.

\* ------------------------------------------------------- program constants
\* flights[:9]
ShownN == 9

\* scraper_map: the airline argument, lower-cased, to the scraper's name
scraper_map ==
    [f \in {"emirates", "ek", "emiratesv2", "ethiopian", "et", "qatar", "qr"} |->
        IF f \in {"emirates", "ek"} THEN "Emirates"
        ELSE IF f = "emiratesv2" THEN "EmiratesV2"
        ELSE IF f \in {"ethiopian", "et"} THEN "Ethiopian"
        ELSE "Qatar"]

\* the scrapers registered without an airline argument
AllAirlines == <<"Emirates", "Ethiopian", "Qatar">>

\* the names of the scrapers the handler registers, in order
ToRegister(airline_filter) ==
    IF airline_filter = None THEN AllAirlines
    ELSE IF airline_filter \in DOMAIN scraper_map THEN <<scraper_map[airline_filter]>>
    ELSE <<>>

Reverse(s) == [i \in 1..Len(s) |-> s[Len(s) + 1 - i]]

\* what scan_all returns when its loop handles the jobs in the order of names
\* and outcome[name] is what the job's future holds
ScanAllReturns(names, outcome, req) ==
    LET acc[i \in 0..Len(names)] ==
            IF i = 0 THEN [results_by_airline |-> EmptyDict, errors |-> <<>>]
            ELSE [results_by_airline |->
                      TryResults(outcome[names[i]], names[i], req, acc[i - 1].results_by_airline),
                  errors |-> ExceptErrors(outcome[names[i]], names[i], acc[i - 1].errors)]
    IN  acc[Len(names)]

\* one line of the response: the i-th flight of a bucket
FlightLine(i, flight) ==
    [i |-> i, departure_date |-> flight.departure_date, return_date |-> flight.return_date,
     price |-> flight.price, medal |-> (i = 1), best_tag |-> flight.is_lowest]

\* BucketLines without the cut at nine
BucketLinesAll(flights) ==
    [i \in 1..Len(flights) |-> FlightLine(i, flights[i])]

\* the lines of one airline's bucket: enumerate(flights[:9], 1)
BucketLines(flights) ==
    [i \in 1..Len(Take(flights, ShownN)) |-> FlightLine(i, flights[i])]

\* the line of one error: airline and message
ErrorLine(error) == [airline |-> error.airline, message |-> error.message]

\* error.get(key): None when the dictionary has no such key
Get(error, key) == IF key \in DOMAIN error THEN error[key] ELSE None

\* the images the handler tries to send for one error entry, given the files
\* that exist: every existing path of screenshot_paths when the entry has a
\* non-empty such list, else the existing screenshot_path
PhotosOf(error, disk) ==
    IF "screenshot_paths" \in DOMAIN error /\ error["screenshot_paths"] # <<>>
    THEN SelectSeq(error["screenshot_paths"], LAMBDA path : path \in disk)
    ELSE IF Truthy(Get(error, "screenshot_path")) /\ error.screenshot_path \in disk
    THEN <<error.screenshot_path>>
    ELSE <<>>

\* the images tried for all the errors, in order
PhotosTried(errs, disk) ==
    LET acc[i \in 0..Len(errs)] ==
            IF i = 0 THEN <<>> ELSE acc[i - 1] \o PhotosOf(errs[i], disk)
    IN  acc[Len(errs)]

\* what the user and the orchestrator see of one /search
Shown(reply, detail, orchestrator, registered, scanned, scan, disk, send_fails) ==
    [ reply |-> reply,
      detail |-> detail,
      orchestrator |-> orchestrator,
      registered |-> registered,
      scanned |-> scanned,
      buckets |-> [a \in DOMAIN scan.results_by_airline |->
                      BucketLines(scan.results_by_airline[a])],
      error_lines |-> [i \in 1..Len(scan.errors) |-> ErrorLine(scan.errors[i])],
      tried |-> PhotosTried(scan.errors, disk),
      sent |-> SelectSeq(PhotosTried(scan.errors, disk), LAMBDA path : path \notin send_fails) ]

NoScan == [results_by_airline |-> EmptyDict, errors |-> <<>>]

\* search(update, context), from the construction of the request on
Search(c) ==
    LET built == PostInit(c.origin, c.destination, c.departure_date, c.return_date, 1)
        req == [departure_date |-> c.departure_date, return_date |-> c.return_date]
        names == ToRegister(c.airline_filter)
        scan == ScanAllReturns(IF c.reversed THEN Reverse(names) ELSE names, c.outcome, req)
    IN  IF built.raised
        THEN Shown("error", built.message, FALSE, <<>>, FALSE, NoScan, {}, {})
        ELSE IF names = <<>>
        THEN Shown("unknown airline", c.airline_filter, TRUE, <<>>, FALSE, NoScan, {}, {})
        ELSE IF scan.results_by_airline = EmptyDict /\ scan.errors = <<>>
        THEN Shown("no flights", "", TRUE, names, TRUE, NoScan, {}, {})
        ELSE Shown("results", "", TRUE, names, TRUE, scan, c.disk, c.send_fails)

\* what a job of the bot may come to
BotOutcomes ==
    { Returned(<<>>),
      Returned(<<OfferMatch, OfferCheap>>),
      Returned(Fillers(MaxPad) \o <<OfferMatch>>) }
        \cup {Failed(AcrossProcess(exc)) : exc \in Raised}

\* the files that still exist when the response is rendered
Disks == { {}, {"final.png"}, {"final.png", "step1.png"}, {"final.png", "step1.png", "step2.png"} }

SearchInit ==
    /\ NoOrchestrator
    /\ call \in [ fn : {"search"},
                  origin : {"LOS", ""},
                  destination : {"CAN"},
                  departure_date : {Date(2025, 12, 3)},
                  return_date : {Date(2025, 12, 23), Date(2025, 12, 3)},
                  airline_filter : {None, "qr", "klm"},
                  outcome : [Range(AllAirlines) -> BotOutcomes],
                  reversed : BOOLEAN,
                  disk : Disks,
                  send_fails : {{}, {"final.png"}} ]
    /\ result = NoResult

HandleSearch ==
    /\ call.fn = "search"
    /\ result = NoResult
    /\ result' = Search(call)
    /\ UNCHANGED << call, orchVars >>

SearchNext == HandleSearch

SearchSpec == SearchInit /\ [][SearchNext]_vars

\* ------------------------------------------------------------------ C21
Searched == call.fn = "search" /\ result # NoResult

\* the arguments violate the validation of FlightRequest
InvalidRequest ==
    \/ Empty(call.origin)
    \/ Empty(call.destination)
    \/ DayNumber(call.departure_date) >= DayNumber(call.return_date)

\* C21: a /search whose arguments violate FlightRequest's validation never
\* reaches the orchestrator: no orchestrator is created, no scraper is
\* registered or executed, and the user gets an error message instead of
\* results; a valid request does reach the orchestrator.
C21_InvalidNeverReachesOrchestrator ==
    Searched =>
        /\ InvalidRequest =>
              /\ ~result.orchestrator
              /\ result.registered = <<>>
              /\ ~result.scanned
              /\ result.reply = "error"
              /\ result.detail \in {"Origin and destination are required",
                                    "Return date must be after departure date"}
              /\ result.buckets = EmptyDict
              /\ result.tried = <<>>
        /\ ~InvalidRequest => result.orchestrator /\ result.reply # "error"

\* return date equal to the departure date, jobs that would have found flights
C21_Witness ==
    /\ Searched
    /\ ~Empty(call.origin)
    /\ call.departure_date = call.return_date
    /\ call.airline_filter = None
    /\ \E a \in Range(AllAirlines) : call.outcome[a].offers # <<>>
    /\ result.reply = "error"
    /\ result.detail = "Return date must be after departure date"
    /\ ~result.orchestrator

\* ------------------------------------------------------------------ C22
\* the request the handler passes to scan_all
SearchRequest == [departure_date |-> call.departure_date, return_date |-> call.return_date]

\* the airlines whose job ran and returned offers
Found == {a \in Range(ToRegister(call.airline_filter)) : call.outcome[a].offers # <<>>}

\* the ranked list scan_all stores for the airline
RankedOf(a) == Rank(call.outcome[a].offers, SearchRequest)

\* C22: for each airline bucket of the results the response holds the first
\* min(len, 9) offers of the ranked list, in ranked order and nothing more,
\* and a line carries the "(BEST)" tag exactly when its offer's is_lowest flag
\* is set, whatever its position.
C22_FirstNineWithBestTag ==
    (Searched /\ result.reply = "results") =>
        /\ DOMAIN result.buckets = Found
        /\ \A a \in Found :
              LET lines == result.buckets[a]
                  ranked == RankedOf(a)
              IN  /\ Len(lines) = Min(Len(ranked), 9)
                  /\ \A i \in 1..Len(lines) :
                        /\ lines[i].i = i
                        /\ lines[i].departure_date = ranked[i].departure_date
                        /\ lines[i].return_date = ranked[i].return_date
                        /\ lines[i].price = ranked[i].price
                        /\ lines[i].best_tag <=> ranked[i].is_lowest

\* one bucket whose ranked list has ten entries, nine of them shown; another
\* whose second line, not its first, carries the tag
C22_Witness ==
    /\ Searched
    /\ result.reply = "results"
    /\ \E a, b \in Found :
          /\ Len(RankedOf(a)) = 10
          /\ Len(result.buckets[a]) = 9
          /\ Len(result.buckets[b]) = 2
          /\ ~result.buckets[b][1].best_tag
          /\ result.buckets[b][2].best_tag

\* ------------------------------------------------------------------ C23
\* the airlines whose job ran and failed
FailedAirlines ==
    {a \in Range(ToRegister(call.airline_filter)) : call.outcome[a].kind = "exception"}

\* C23: for every error entry the response shows the entry's message, and the
\* handler tries to send every diagnostic image of that failure that exists on
\* disk, all the captured screenshots of a diagnosed failure included; an image
\* whose sending fails does not keep the others from being sent.
C23_EveryImageTried ==
    (Searched /\ result.reply = "results") =>
        /\ \A a \in FailedAirlines :
              /\ \E i \in 1..Len(result.error_lines) :
                    result.error_lines[i] =
                        [airline |-> a, message |-> call.outcome[a].exc.message]
              /\ \A path \in Range(call.outcome[a].exc.screenshot_paths) :
                    path \in call.disk => path \in Range(result.tried)
        /\ \A path \in Range(result.tried) :
              path \notin call.send_fails => path \in Range(result.sent)

\* =====================================================================
\* The test scripts (src/test_scanner.py, src/test_emirates_only.py) on the
\* value scan_all returns.

\* return results_by_airline, errors: a tuple of two
ReturnValue == <<results_by_airline, errors>>

\* not results: a tuple is falsy when it is empty
Falsy(results) == Len(results) = 0

\* for i, result in enumerate(results, 1): the number of items printed
Printed(results) == Len(results)

\* ------------------------------------------------------------------ C24
\* the flights scan_all found, over all airlines
FlightsFound ==
    UNION {{<<a, i>> : i \in 1..Len(results_by_airline[a])} : a \in DOMAIN results_by_airline}

\* C24: the value scan_all returns is falsy exactly when no flights were
\* found, and iterating over it yields the flights found, one item per flight.
C24_ConsumableAsFlightList ==
    pc = "returned" =>
        /\ Falsy(ReturnValue) <=> FlightsFound = {}
        /\ Printed(ReturnValue) = Cardinality(FlightsFound)

\* =====================================================================
\* EmiratesScraper.scrape (src/scrapers/emirates_scraper.py; the handler of
\* EmiratesV3Scraper.scrape has the same shape) on its own, in an environment
\* where a step of the browser session and the writing of the debug files
\* may fail.

\* the step that fails, if any ("form": the filling of the search form,
\* "search": the click on the search button, "calendar": the wait for the
\* calendar grid), and the faults of the file system and of the screenshot call
EmiratesEnvironments ==
    [ primary : {"none", "form", "search", "calendar"},
      progress_fails : BOOLEAN,
      makedirs_fails : BOOLEAN,
      save_fails : BOOLEAN,
      write_fails : BOOLEAN,
      offers : {<<>>, <<OfferMatch, OfferCheap>>} ]

\* str(e) of the exception the failing step raises
EmiratesMessage(primary) ==
    IF primary = "form" THEN "element input[name=Departure] was not found"
    ELSE IF primary = "search" THEN "Search button not found"
    ELSE "element .calendar-grid was not present after 60 seconds"

EmiratesStepPaths ==
    << "emirates_step_1_0_start.png", "emirates_step_2_1_loaded_page.png",
       "emirates_step_3_2_cookies_handled.png", "emirates_step_4_3_origin_set.png",
       "emirates_step_5_4_destination_set.png", "emirates_step_6_5_dates_set.png" >>

\* progress_screenshots when the failing step is reached: the form fails at
\* the origin field, the later steps after all six screenshots
EmiratesProgress(env) ==
    IF env.progress_fails \/ env.makedirs_fails \/ env.save_fails THEN <<>>
    ELSE SubSeq(EmiratesStepPaths, 1, IF env.primary = "form" THEN 3 ELSE 6)

\* what the inner try block of a handler raises: the fault of os.makedirs,
\* save_screenshot or the HTML dump, or else the ScraperError of its last line
LeavesDebugTry(env, text, e, screenshot_path, html_path) ==
    IF PersistFault(env) # ""
    THEN PlainException("Exception", <<PersistFault(env)>>)
    ELSE ScraperErrorInit(<<text, e>>, screenshot_path, html_path, EmiratesProgress(env))

\* except Exception as e (lines 163-185, 200-221; emirates_v3_scraper.py
\* 177-194): the inner  except Exception as debug_error: raise e  takes whatever
\* the inner try block raises that derives from Exception
RaisingInsideTry(env, text, e, screenshot_path, html_path) ==
    IF IsException(LeavesDebugTry(env, text, e, screenshot_path, html_path))
    THEN Failed(PlainException("Exception", <<e>>))
    ELSE Failed(LeavesDebugTry(env, text, e, screenshot_path, html_path))

\* except Exception as e (lines 229-248): the debug files are written inside
\* the inner try block, the ScraperError is raised after it
RaisingAfterTry(env, text, e, screenshot_path, html_path) ==
    IF PersistFault(env) # ""
    THEN Failed(PlainException("Exception", <<e>>))
    ELSE Failed(ScraperErrorInit(<<text, e>>, screenshot_path, html_path, EmiratesProgress(env)))

\* EmiratesScraper.scrape(request)
EmiratesScrape(env) ==
    IF env.primary = "none" THEN Returned(env.offers)
    ELSE IF env.primary = "form"
    THEN RaisingInsideTry(env, "Form filling failed: ", EmiratesMessage(env.primary),
                          "emirates_form_fail.png", "emirates_form_fail.html")
    ELSE IF env.primary = "search"
    THEN RaisingInsideTry(env, "Search button not found: ", EmiratesMessage(env.primary),
                          "emirates_search_btn_fail.png", "emirates_search_btn_fail.html")
    ELSE RaisingAfterTry(env, "Calendar grid not found: ", EmiratesMessage(env.primary),
                         "emirates_calendar_debug.png", "emirates_calendar_debug.html")

EmiratesInit ==
    /\ NoOrchestrator
    /\ call \in {[fn |-> "emirates", env |-> env] : env \in EmiratesEnvironments}
    /\ result = NoResult

ScrapeEmirates ==
    /\ call.fn = "emirates"
    /\ result = NoResult
    /\ result' = EmiratesScrape(call.env)
    /\ UNCHANGED << call, orchVars >>

EmiratesNext == ScrapeEmirates

EmiratesSpec == EmiratesInit /\ [][EmiratesNext]_vars

\* ------------------------------------------------------------------ C25
\* the debug screenshot and the HTML dump were written
DebugFilesSaved ==
    ~call.env.makedirs_fails /\ ~call.env.save_fails /\ ~call.env.write_fails

\* C25: when the form filling or the click on the search button fails and
\* the debug files are saved, scrape raises a ScraperError that carries the
\* failure screenshot, the HTML path and the progress screenshots; the
\* original exception is raised again only when saving the debug files failed.
C25_DiagnosedWhenDebugSaved ==
    (call.fn = "emirates" /\ result # NoResult /\ call.env.primary \in {"form", "search"}) =>
        /\ result.kind = "exception"
        /\ IF DebugFilesSaved
           THEN /\ result.exc.cls = "ScraperError"
                /\ result.exc.screenshot_path # None
                /\ result.exc.html_path # None
                /\ Range(EmiratesProgress(call.env)) \subseteq Range(result.exc.screenshot_paths)
           ELSE result.exc = PlainException("Exception", <<EmiratesMessage(call.env.primary)>>)

\* =====================================================================
\* scan_all over jobs that do not keep to the type of FlightResult.price: a
\* scrape may also return a list that holds an offer without a numeric price.

UntypedOfferSeqs == { <<OfferUnpriced, OfferCheap>> }

UntypedNext ==
    \/ Next
    \/ \E j \in Jobs, offers \in UntypedOfferSeqs : JobReturn(j, offers)

UntypedSpec == Init /\ [][UntypedNext]_vars

\* ------------------------------------------------------------------ C26
\* job j returned offers whose prices cannot all be compared
RankingRaises(j) ==
    /\ Succeeded(j)
    /\ Len(Out(j).offers) >= 2
    /\ \E i \in 1..Len(Out(j).offers) : Out(j).offers[i].price = NoPrice

C26_Step(j) ==
    (RankingRaises(j) /\ j \notin yielded /\ j \in yielded') =>
        /\ pc' = pc
        /\ results_by_airline' = results_by_airline
        /\ Len(errors') = Len(errors) + 1
        /\ SubSeq(errors', 1, Len(errors)) = errors
        /\ errors'[Len(errors')].airline = JobName(j)
        /\ EntryPaths(errors'[Len(errors')]) = <<>>

C26_AtReturn ==
    /\ pc = "raised" => broken
    /\ pc = "returned" =>
          /\ \A k \in Jobs : Times(consumed, k) = 1
          /\ DistinctNames =>
                \A j \in Jobs :
                    RankingRaises(j) =>
                        /\ JobName(j) \notin DOMAIN results_by_airline
                        /\ Cardinality(ErrorsOf(JobName(j))) = 1

\* C26: when the ranking of a job's offers raises, the loop appends exactly
\* one entry for that job to errors, without a screenshot path, writes no key
\* to results_by_airline and goes on; scan_all raises only on a broken pool,
\* and at the return every job has been handled once, the job whose ranking
\* raised having one error entry and no key.
C26_RankingFaultContained ==
    /\ [][\A j \in Jobs : C26_Step(j)]_vars
    /\ []C26_AtReturn

C26_Witness ==
    /\ pc = "returned"
    /\ \E j, k \in Jobs :
          /\ RankingRaises(j)
          /\ WithOffers(k) /\ ~RankingRaises(k)
          /\ Pos(consumed, j) < Pos(consumed, k)
          /\ JobName(k) \in DOMAIN results_by_airline
          /\ JobName(j) \notin DOMAIN results_by_airline
          /\ Len(errors) = 1

\* ------------------------------------------------------------------ C27
\* C27: the list stored for a job is not empty, each of its entries is one
\* of the offers the job returned, and no offer occurs in it more often than
\* in the list the job returned.
C27_SubMultisetOfRaw ==
    Ranked =>
        /\ Final # <<>>
        /\ \A i \in 1..Len(Final) :
              /\ Times(Raw, Final[i]) >= 1
              /\ Times(Final, Final[i]) <= Times(Raw, Final[i])

C27_Witness ==
    /\ Ranked
    /\ \E x \in Range(Raw) :
          /\ result.exact_match = <<x>>
          /\ Times(Raw, x) = 2
          /\ Times(Final, x) = 2
          /\ Len(Final) < Len(Raw)

\* =====================================================================
\* One orchestrator used for several searches: register_scraper and scan_all
\* called again after a scan_all has returned or raised.

MaxRepeat == 2

\* a further call of scan_all on the same orchestrator
ScanAgain(req) ==
    /\ scans >= MaxScans
    /\ scans < MaxRepeat
    /\ EnterScanAll(req)

RepeatNext ==
    \/ Next
    \/ \E req \in Requests : ScanAgain(req)

RepeatSpec == Init /\ [][RepeatNext]_vars

\* ------------------------------------------------------------------ C28
\* a step that enters scan_all
Entering == pc \notin {"submitting", "collecting"} /\ pc' = "submitting"

C28_Step ==
    /\ Len(scrapers) <= Len(scrapers') /\ Len(scrapers') <= Len(scrapers) + 1
    /\ SubSeq(scrapers', 1, Len(scrapers)) = scrapers
    /\ (InScan \/ Entering) => scrapers' = scrapers
    /\ Entering =>
          /\ results_by_airline' = EmptyDict
          /\ errors' = <<>>
          /\ DOMAIN fut' = 1..Len(scrapers)
    /\ (pc = "collecting" /\ pc' = "returned") =>
          /\ DOMAIN fut = 1..Len(scrapers)
          /\ \A j \in 1..Len(scrapers) : Times(consumed, j) = 1

C28_OwnOutcome ==
    pc = "returned" =>
        /\ \A n \in DOMAIN results_by_airline :
              \E j \in Jobs : /\ WithOffers(j) /\ JobName(j) = n
                              /\ results_by_airline[n] = Rank(Out(j).offers, request)
        /\ Len(errors) = Len(FailedConsumed)
        /\ \A i \in DOMAIN errors : errors[i].airline = JobName(FailedConsumed[i])

\* C28: register_scraper appends to scrapers and changes nothing before the
\* end; no step of scan_all changes scrapers; scan_all starts with an empty
\* results_by_airline and errors, runs one job per registered scraper and
\* handles each once, and what it returns holds only the ranked offers and
\* the failures of the jobs of that call.
C28_RegistryAndFreshOutcome ==
    /\ [][C28_Step]_vars
    /\ []C28_OwnOutcome

C28_Witness ==
    /\ scans = MaxRepeat
    /\ pc = "returned"
    /\ Len(scrapers) = 2
    /\ Cardinality(Jobs) = 2
    /\ \A j \in Jobs : Succeeded(j) /\ Out(j).offers = <<>>
    /\ results_by_airline = EmptyDict
    /\ errors = <<>>

\* =====================================================================
\* ScraperError.__init__ (src/core/exceptions.py) on its own.

MaxPaths == 2

PathNames == {"a.png", "b.png"}

\* the lists of progress screenshots a scraper may hand over (<<>> also
\* stands for the default None, which  screenshot_paths or []  turns into [])
PathLists == UNION {[1..n -> PathNames] : n \in 0..MaxPaths}

ErrorInit ==
    /\ NoOrchestrator
    /\ call \in [ fn : {"ScraperError"},
                  message : {"failed", ""},
                  screenshot_path : {None, ""} \cup PathNames,
                  html_path : {None, "page.html"},
                  screenshot_paths : PathLists ]
    /\ result = NoResult

Construct_ScraperError ==
    /\ call.fn = "ScraperError"
    /\ result = NoResult
    /\ result' = ScraperErrorInit(call.message, call.screenshot_path, call.html_path,
                                  call.screenshot_paths)
    /\ UNCHANGED << call, orchVars >>

ErrorNext == Construct_ScraperError

ErrorSpec == ErrorInit /\ [][ErrorNext]_vars

\* ------------------------------------------------------------------ C29
ErrorBuilt == call.fn = "ScraperError" /\ result # NoResult

FinalSupplied == call.screenshot_path # None /\ call.screenshot_path # ""

\* C29: the screenshot_paths of a constructed ScraperError starts with the
\* supplied list in its order; a supplied non-empty screenshot_path is in it,
\* as one more element at the end exactly when the supplied list did not hold
\* it; nothing else is added, and with nothing supplied the list is empty.
C29_ScreenshotPaths ==
    ErrorBuilt =>
        /\ SubSeq(result.screenshot_paths, 1, Len(call.screenshot_paths)) = call.screenshot_paths
        /\ FinalSupplied => Times(result.screenshot_paths, call.screenshot_path) >= 1
        /\ IF FinalSupplied /\ Times(call.screenshot_paths, call.screenshot_path) = 0
           THEN result.screenshot_paths = Append(call.screenshot_paths, call.screenshot_path)
           ELSE result.screenshot_paths = call.screenshot_paths
        /\ (~FinalSupplied /\ call.screenshot_paths = <<>>) => result.screenshot_paths = <<>>

C29_Witness ==
    /\ ErrorBuilt
    /\ call.screenshot_path = "a.png"
    /\ call.screenshot_paths = <<"b.png", "a.png">>
    /\ result.screenshot_paths = <<"b.png", "a.png">>

\* =====================================================================
\* AirlineScraper.get_best_price (src/scrapers/base_scraper.py) on its own,
\* over what the scraper's scrape returns or raises.

\* min that keeps the last of the offers at the lowest price
MinLast(s) ==
    s[CHOOSE i \in 1..Len(s) :
         \A k \in 1..Len(s) : s[i].price < s[k].price \/ (s[i].price = s[k].price /\ k <= i)]

\* min(results, key=lambda x: x.price): the first of the offers at the lowest price
MinFirst(s) ==
    s[CHOOSE i \in 1..Len(s) :
         \A k \in 1..Len(s) : s[i].price < s[k].price \/ (s[i].price = s[k].price /\ i <= k)]

\* min compares the key of every offer after the first with the lowest so
\* far: TypeError as soon as two offers are compared and one has no number
MinRaises(s) == Len(s) >= 2 /\ \E i \in 1..Len(s) : s[i].price = NoPrice

\* what a call returns (best is <<>> for None) or lets through
BestReturned(best) == [raised |-> FALSE, best |-> best, exc |-> NoExc]

BestRaised(exc) == [raised |-> TRUE, best |-> <<>>, exc |-> exc]

\* get_best_price(request), out being what self.scrape(request) does
GetBestPrice(out) ==
    IF out.kind = "exception"
    THEN IF IsException(out.exc) THEN BestReturned(<<>>) ELSE BestRaised(out.exc)
    ELSE IF out.kind = "nothing" \/ out.offers = <<>> THEN BestReturned(<<>>)
    ELSE IF MinRaises(out.offers) THEN BestReturned(<<>>)
    ELSE BestReturned(<<MinFirst(out.offers)>>)

ScrapeOutcomes ==
    {Returned(s) : s \in ShortSeqs \cup UntypedOfferSeqs}
        \cup {ReturnedNone}
        \cup {Failed(exc) : exc \in Raised}

BestPriceInit ==
    /\ NoOrchestrator
    /\ call \in {[fn |-> "get_best_price", out |-> out] : out \in ScrapeOutcomes}
    /\ result = NoResult

CallGetBestPrice ==
    /\ call.fn = "get_best_price"
    /\ result = NoResult
    /\ result' = GetBestPrice(call.out)
    /\ UNCHANGED << call, orchVars >>

BestPriceNext == CallGetBestPrice

BestPriceSpec == BestPriceInit /\ [][BestPriceNext]_vars

\* ------------------------------------------------------------------ C30
BestPriceCalled == call.fn = "get_best_price" /\ result # NoResult

\* scrape returned offers that all carry a numeric price
PricedOffers ==
    /\ call.out.kind = "offers"
    /\ call.out.offers # <<>>
    /\ \A i \in 1..Len(call.out.offers) : call.out.offers[i].price # NoPrice

\* the position of the returned offer in the list scrape returned
Cheapest(i) ==
    /\ result.best = <<call.out.offers[i]>>
    /\ \A k \in 1..Len(call.out.offers) : call.out.offers[i].price <= call.out.offers[k].price
    /\ \A k \in 1..(i - 1) : call.out.offers[k].price > call.out.offers[i].price

\* C30: get_best_price lets no exception through; on priced offers it
\* returns the first of the offers at the lowest price; it returns None when
\* scrape returns no offer (an empty list or None) or raises.
C30_BestOrNone ==
    BestPriceCalled =>
        /\ ~result.raised
        /\ PricedOffers => \E i \in 1..Len(call.out.offers) : Cheapest(i)
        /\ (call.out.kind \in {"nothing", "exception"} \/ call.out.offers = <<>>) =>
              result.best = <<>>

C30_Witness ==
    /\ BestPriceCalled
    /\ PricedOffers
    /\ Len(call.out.offers) = 3
    /\ call.out.offers[1].price = call.out.offers[2].price
    /\ call.out.offers[3].price >= call.out.offers[1].price
    /\ call.out.offers[1] # call.out.offers[2]
    /\ result.best = <<call.out.offers[1]>>

====
